---- MODULE Spec2Model ----
(***************************************************************************)
(* A model of StaticCodeAnalyzer (src/code_analyzer.py): the boundary      *)
(* scanner, the seven line checks, the five tree checks, the issue         *)
(* registry and the run  make_analyze(); show_msgs()  of main().           *)
(*                                                                         *)
(* A line of text is a sequence of one-character strings.  Positions in a  *)
(* line are Python's, counted from 0: At(line, i) is line[i].  Line        *)
(* numbers are counted from 1, as enumerate(..., start=1) counts them.     *)
(***************************************************************************)
EXTENDS Integers, Sequences, FiniteSets, TLC

VARIABLES
    disk,       \* the files the file system holds: identifier -> content
    filenames,  \* self.filenames
    code,       \* self.code
    issues,     \* self.issues
    pc,         \* the step of main() that runs next
    cur,        \* the position in self.filenames of make_analyze's loop
    out         \* the records show_msg has printed, in order

vars == <<disk, filenames, code, issues, pc, cur, out>>

\* ------------------------------------------------------------------ bounds

\* The longest single line of the line-level inputs.
MaxLineLen == 5
\* The most lines of a file of the blank-line inputs.
MaxLines == 5
\* The most files the file system holds.
MaxFiles == 2

\* ------------------------------------------------------------- characters

\* The characters the scanner and the line checks tell apart, and "x" for
\* every other character.
Alphabet == {"'", "\"", "#", "\\", ";", " ", "x"}

\* str.strip(), str.lstrip() and the pattern \s: the white space characters.
IsSpace(c) == c \in {" ", "\n", "\t"}

\* line[i], with Python's wrap of a negative index.
At(line, i) == IF i >= 0 THEN line[i + 1] ELSE line[Len(line) + i + 1]

\* line[a:b] for 0 <= a <= b <= len(line).
Slice(line, a, b) == [k \in 1..(b - a) |-> line[a + k]]

\* The rule codes, in the order of their text ("S001" < ... < "S012").
S001 == 1
S002 == 2
S003 == 3
S004 == 4
S005 == 5
S006 == 6
S007 == 7
S008 == 8
S009 == 9
S010 == 10
S011 == 11
S012 == 12

max_len == 79

\* ------------------------------------------------------- find_boundaries

\* Python's None, where an offset is expected.
None == -1

\* [i for i in range(len(line)) if line[i] in chars]: the positions of the
\* characters of chars, ascending.
positions(line, chars) ==
    LET at == {i \in 0..(Len(line) - 1) : At(line, i) \in chars}
    IN  [k \in 1..Cardinality(at) |->
            CHOOSE i \in at : Cardinality({j \in at : j < i}) = k - 1]

\* A faulty variant of IsCommentStart: the test of string_opened forgotten.
IsCommentStartNoState(line, i, string_opened) == At(line, i) = "#"

\* line[i] == '#' and not string_opened
IsCommentStart(line, i, string_opened) == At(line, i) = "#" /\ ~string_opened

\* line[i] != quote or line[i - 1] == '\\': the quote at i does not close.
StaysOpen(line, i, quote) == At(line, i) # quote \/ At(line, i - 1) = "\\"

\* The loop  for i in quotes  of find_boundaries.
RECURSIVE scan(_, _, _, _, _)
scan(line, quotes, string_opened, quote, res) ==
    IF quotes = <<>> THEN res
    ELSE LET i == Head(quotes)
             rest == Tail(quotes)
         IN  IF IsCommentStart(line, i, string_opened)
             THEN [res EXCEPT !.comment = i]
             ELSE IF ~string_opened
             THEN scan(line, rest, TRUE, At(line, i),
                       [res EXCEPT !.head = Append(@, i)])
             ELSE IF StaysOpen(line, i, quote)
             THEN scan(line, rest, string_opened, quote, res)
             ELSE scan(line, rest, FALSE, quote,
                       [res EXCEPT !.tail = Append(@, i)])

find_boundaries(line) ==
    scan(line, positions(line, {"'", "\"", "#"}), FALSE, "",
         [head |-> <<>>, tail |-> <<>>, comment |-> None])

\* zip(borders["head"], borders["tail"]): as many pairs as the shorter list.
Min(a, b) == IF a <= b THEN a ELSE b
zipLen(borders) == Min(Len(borders.head), Len(borders.tail))

\* ------------------------------------------------------------ line checks

\* An issue is a bare code, <<code>>, or a pair <<code, name>>.
Bare(msg_code) == <<msg_code>>
Named(msg_code, name) == <<msg_code, name>>

\* len(line) > self.max_len
s001(line) == Len(line) > max_len

\* len(line) - len(line.lstrip()): the length of the leading white space.
leadingSpace(line) ==
    CHOOSE n \in 0..Len(line) :
        /\ \A i \in 0..(n - 1) : IsSpace(At(line, i))
        /\ n = Len(line) \/ ~IsSpace(At(line, n))

\* len(line.lstrip()) > 0 and (len(line) - len(line.lstrip())) % 4 > 0
s002(line) ==
    LET n == leadingSpace(line)
    IN  Len(line) - n > 0 /\ n % 4 > 0

\* A faulty variant of InSpan: the tail never compared.
InSpanNoTail(h, j, t) == h < j

\* h < j < t
InSpan(h, j, t) == h < j /\ j < t

\* The body of  for j in semicolons:  the value of found for one j.
foundAt(borders, j) ==
    \/ \E k \in 1..zipLen(borders) : InSpan(borders.head[k], j, borders.tail[k])
    \/ borders.comment # None /\ j > borders.comment

\* The loop  for j in semicolons  of check_s003: TRUE when it adds "S003".
RECURSIVE s003Loop(_, _)
s003Loop(line, semicolons) ==
    IF semicolons = <<>> THEN FALSE
    ELSE IF ~foundAt(find_boundaries(line), Head(semicolons)) THEN TRUE
    ELSE s003Loop(line, Tail(semicolons))

\* semicolons = [j for j in range(len(line)) if line[j] == ';']
s003(line) == s003Loop(line, positions(line, {";"}))

\* pos is not None and pos != 0 and
\* (pos == 1 or (pos > 2 and line[pos - 2:pos] != '  '))
s004(line) ==
    LET pos == find_boundaries(line).comment
    IN  /\ pos # None
        /\ pos # 0
        /\ \/ pos = 1
           \/ pos > 2 /\ Slice(line, pos - 2, pos) # <<" ", " ">>

\* re.IGNORECASE on the letters of TODO.
SameLetter(c, u) ==
    \/ c = u
    \/ u = "T" /\ c = "t"
    \/ u = "O" /\ c = "o"
    \/ u = "D" /\ c = "d"

\* re.compile(r"#.*\s+TODO\s+.*", re.IGNORECASE).match(s): "#", characters
\* of one line up to s[m], white space up to s[k - 1], TODO at s[k], and white
\* space after it (s is counted from 1 here).
matchTodo(s) ==
    /\ Len(s) >= 1
    /\ s[1] = "#"
    /\ \E k \in 3..(Len(s) - 4) :
          /\ SameLetter(s[k], "T") /\ SameLetter(s[k + 1], "O")
          /\ SameLetter(s[k + 2], "D") /\ SameLetter(s[k + 3], "O")
          /\ IsSpace(s[k + 4])
          /\ \E m \in 1..(k - 2) :
                /\ \A j \in 2..m : s[j] # "\n"
                /\ \A j \in (m + 1)..(k - 1) : IsSpace(s[j])

s005(line) ==
    LET pos == find_boundaries(line).comment
    IN  pos # None /\ matchTodo(Slice(line, pos, Len(line)))

\* A faulty variant of TooManyBlank: two blank lines are too many already.
TooManyBlankFromTwo(count) == count >= 2

\* count > 2
TooManyBlank(count) == count > 2

\* The loop of check_s006 from line i on, count blank lines seen: the line
\* numbers that get "S006".
RECURSIVE s006From(_, _, _)
s006From(lines, i, count) ==
    IF i > Len(lines) THEN {}
    ELSE IF leadingSpace(lines[i]) = Len(lines[i])
         THEN s006From(lines, i + 1, count + 1)
         ELSE (IF TooManyBlank(count) THEN {i} ELSE {})
              \cup s006From(lines, i + 1, 0)

kw_def == <<"d", "e", "f">>
kw_class == <<"c", "l", "a", "s", "s">>

\* re.compile(r"\s*KW\s{2,}[\w\S\D]+([(].*[)])?:").match(line): a white
\* space, the keyword at a, b >= 2 white space, one or more characters of any
\* kind ([\w\S\D] is every character), an optional "(" ... ")" within one
\* line, and ":" at q (positions from 0).
matchKeyword(line, kw) ==
    LET n == Len(kw)
    IN  \E a \in 0..(Len(line) - n) :
           /\ \A i \in 0..(a - 1) : IsSpace(At(line, i))
           /\ Slice(line, a, a + n) = kw
           /\ \E b \in 2..(Len(line) - a - n) :
                 LET e == a + n + b     \* the first position after the \s{2,}
                 IN  /\ \A i \in (a + n)..(e - 1) : IsSpace(At(line, i))
                     /\ \E q \in (e + 1)..(Len(line) - 1) :
                           /\ At(line, q) = ":"
                           /\ \/ q - e >= 1
                              \/ \E g \in (e + 1)..(q - 2) :
                                    /\ At(line, g) = "("
                                    /\ At(line, q - 1) = ")"
                                    /\ \A i \in (g + 1)..(q - 2) :
                                          At(line, i) # "\n"

\* The issue check_s007 adds for a line: def is tried before class.
s007(line) ==
    IF matchKeyword(line, kw_def) THEN {Named(S007, kw_def)}
    ELSE IF matchKeyword(line, kw_class) THEN {Named(S007, kw_class)}
    ELSE {}

\* What each line check adds to line i of a file with these lines.
lexFound(check, lines, i) ==
    CASE check = "s001" -> IF s001(lines[i]) THEN {Bare(S001)} ELSE {}
      [] check = "s002" -> IF s002(lines[i]) THEN {Bare(S002)} ELSE {}
      [] check = "s003" -> IF s003(lines[i]) THEN {Bare(S003)} ELSE {}
      [] check = "s004" -> IF s004(lines[i]) THEN {Bare(S004)} ELSE {}
      [] check = "s005" -> IF s005(lines[i]) THEN {Bare(S005)} ELSE {}
      [] check = "s006" -> IF i \in s006From(lines, 1, 0) THEN {Bare(S006)} ELSE {}
      [] check = "s007" -> s007(lines[i])

\* ------------------------------------------------------------ tree checks

\* A node of ast.walk(tree), as far as the checks read it: its class (kind),
\* node.name / node.id / node.attr (name), node.lineno, the class of node.ctx,
\* node.args.args as <<arg, lineno>> pairs and node.args.defaults as
\* <<class, lineno>> pairs.
Node(kind, name, lineno, ctx, args, defaults) ==
    [kind |-> kind, name |-> name, lineno |-> lineno, ctx |-> ctx,
     args |-> args, defaults |-> defaults]

LowerOrDigit ==
    {"a", "b", "c", "d", "e", "f", "g", "h", "i", "j", "k", "l", "m", "n", "o",
     "p", "q", "r", "s", "t", "u", "v", "w", "x", "y", "z",
     "0", "1", "2", "3", "4", "5", "6", "7", "8", "9"}
Upper ==
    {"A", "B", "C", "D", "E", "F", "G", "H", "I", "J", "K", "L", "M", "N", "O",
     "P", "Q", "R", "S", "T", "U", "V", "W", "X", "Y", "Z"}

\* re.match(r"^[a-z\d_]+$", s)
is_snake_case(s) ==
    Len(s) >= 1 /\ \A i \in 1..Len(s) : s[i] \in LowerOrDigit \cup {"_"}

\* ([A-Z][a-z\d]+)+$ matched from s[i] on (s counted from 1).
RECURSIVE camelFrom(_, _)
camelFrom(s, i) ==
    /\ i <= Len(s)
    /\ s[i] \in Upper
    /\ \E j \in (i + 1)..Len(s) :
          /\ \A k \in (i + 1)..j : s[k] \in LowerOrDigit
          /\ (j = Len(s) \/ camelFrom(s, j + 1))

\* re.match(r"^([A-Z][a-z\d]+)+$", s)
is_camel_case(s) == camelFrom(s, 1)

\* Each tree check, as the set of <<line, issue>> it adds for one node.
s008(node) ==
    IF node.kind = "ClassDef" /\ ~is_camel_case(node.name)
    THEN {<<node.lineno, Named(S008, node.name)>>} ELSE {}

s009(node) ==
    IF node.kind = "FunctionDef" /\ ~is_snake_case(node.name)
    THEN {<<node.lineno, Named(S009, node.name)>>} ELSE {}

s010(node) ==
    IF node.kind = "FunctionDef"
    THEN {<<node.args[k][2], Named(S010, node.args[k][1])>> :
             k \in {k \in 1..Len(node.args) : ~is_snake_case(node.args[k][1])}}
    ELSE {}

s011(node) ==
    IF node.kind \in {"Name", "Attribute"} /\ node.ctx = "Store"
       /\ ~is_snake_case(node.name)
    THEN {<<node.lineno, Named(S011, node.name)>>} ELSE {}

s012(node) ==
    IF node.kind = "FunctionDef"
    THEN {<<node.defaults[k][2], Bare(S012)>> :
             k \in {k \in 1..Len(node.defaults) :
                       node.defaults[k][1] \in {"List", "Dict", "Set"}}}
    ELSE {}

\* The loop  for node in ast.walk(tree)  of check_ast: what it adds to line i.
astFound(nodes, i) ==
    {p[2] : p \in {p \in UNION {s008(n) \cup s009(n) \cup s010(n) \cup s011(n)
                                 \cup s012(n) : n \in nodes} : p[1] = i}}

\* ------------------------------------------------------------- the files

\* The contents a file of the file system may have, written line by line.
\* x = 1;\n
src_semi ==
    << <<"x", " ", "=", " ", "1", ";", "\n">> >>
\* x = (;\n
src_broken ==
    << <<"x", " ", "=", " ", "(", ";", "\n">> >>
\* aB = cD = 1\n
src_tie ==
    << <<"a", "B", " ", "=", " ", "c", "D", " ", "=", " ", "1", "\n">> >>
\* def  fN(aB, c=[]):\n |     pass\n
src_func ==
    << <<"d", "e", "f", " ", " ", "f", "N", "(", "a", "B", ",", " ", "c", "=", "[", "]", ")", ":", "\n">>,
       <<" ", " ", " ", " ", "p", "a", "s", "s", "\n">> >>
\* \n | \n | \n | class  ab:\n |   x = 1 # todo \n
src_cls ==
    << <<"\n">>,
       <<"\n">>,
       <<"\n">>,
       <<"c", "l", "a", "s", "s", " ", " ", "a", "b", ":", "\n">>,
       <<" ", " ", "x", " ", "=", " ", "1", " ", "#", " ", "t", "o", "d", "o", " ", "\n">> >>
\* one line of max_len + 1 characters
src_long == <<[i \in 1..(max_len + 1) |-> "#"]>>

\* A node of a class no check reads (Module, Assign, Constant, Pass, ...).
Other(lineno) == Node("Other", <<>>, lineno, "", <<>>, <<>>)

\* Each content with what ast.parse makes of it: a syntax error (ok is
\* FALSE), or the nodes ast.walk yields; the nodes of a class no check reads
\* are of kind "Other".
Corpus ==
    { [lines |-> src_semi, ok |-> TRUE,
       nodes |-> {Other(1), Node("Name", <<"x">>, 1, "Store", <<>>, <<>>)}],
      [lines |-> src_broken, ok |-> FALSE, nodes |-> {}],
      [lines |-> src_tie, ok |-> TRUE,
       nodes |-> {Other(1), Node("Name", <<"a", "B">>, 1, "Store", <<>>, <<>>),
                  Node("Name", <<"c", "D">>, 1, "Store", <<>>, <<>>)}],
      [lines |-> src_func, ok |-> TRUE,
       nodes |-> {Other(1), Other(2),
                  Node("FunctionDef", <<"f", "N">>, 1, "",
                       << <<<<"a", "B">>, 1>>, <<<<"c">>, 1>> >>,
                       << <<"List", 1>> >>)}],
      [lines |-> src_cls, ok |-> TRUE,
       nodes |-> {Other(5), Node("ClassDef", <<"a", "b">>, 4, "", <<>>, <<>>),
                  Node("Name", <<"x">>, 5, "Store", <<>>, <<>>)}],
      [lines |-> src_long, ok |-> TRUE, nodes |-> {Other(1)}] }

\* ast.parse(''.join(self.code.get(file)))
ast_parse(lines) == CHOOSE e \in Corpus : e.lines = lines

\* A file of the file system: unreadable (open or readlines raises), or
\* readable with its lines.
Unreadable == [readable |-> FALSE, lines |-> <<>>]
FileStates == {[readable |-> TRUE, lines |-> e.lines] : e \in Corpus} \cup {Unreadable}

\* File identifiers: a path is written as its rank in the order of the paths.
FileIds == 1..MaxFiles

Readable(f) == f \in DOMAIN disk /\ disk[f].readable

\* ------------------------------------------------------------ the registry

\* {i: set() for i in range(1, len(self.code[name]) + 1)}
emptySlice(lines) == [i \in 1..Len(lines) |-> {}]

\* self.issues[file][i].add(...) for every line i, found[i] being what is added.
addAll(reg, file, found) ==
    [reg EXCEPT ![file] = [i \in DOMAIN @ |-> @[i] \cup found[i]]]

\* The key of show_msgs' sort:  x[0] if isinstance(x, tuple) else x.
key(issue) == issue[1]

\* sorted(..., key=...) on a list: a stable insertion, an element going after
\* every element whose key is not greater.
RECURSIVE insertByKey(_, _)
insertByKey(sorted, x) ==
    IF sorted = <<>> THEN <<x>>
    ELSE IF key(Head(sorted)) <= key(x)
         THEN <<Head(sorted)>> \o insertByKey(Tail(sorted), x)
         ELSE <<x>> \o sorted

RECURSIVE sortedByKey(_)
sortedByKey(list) ==
    IF list = <<>> THEN <<>>
    ELSE insertByKey(sortedByKey(SubSeq(list, 1, Len(list) - 1)), list[Len(list)])

\* The orders in which iterating a set may yield its elements: a set of
\* strings and tuples of strings is ordered by their hashes, which differ from
\* one run of the interpreter to the next.
iterOrders(set) ==
    {p \in [1..Cardinality(set) -> set] :
        \A a, b \in 1..Cardinality(set) : a # b => p[a] # p[b]}

\* What show_msg prints for one issue: file, line, msg_code and name (<<>>
\* for a bare code).
record(file, line, issue) ==
    [file |-> file, line |-> line, msg_code |-> issue[1],
     name |-> IF Len(issue) = 2 THEN issue[2] ELSE <<>>]

\* What the inner loop of show_msgs may print for one line.
lineOutputs(reg, file, line) ==
    {[k \in 1..Len(p) |-> record(file, line, sortedByKey(p)[k])] :
        p \in iterOrders(reg[file][line])}

\* What show_msgs may print for the lines from line on of one file, and for
\* the files from file on: sorted(lines.items()), sorted(self.issues.items()).
RECURSIVE linesOutputs(_, _, _)
linesOutputs(reg, file, line) ==
    IF line \notin DOMAIN reg[file] THEN {<<>>}
    ELSE {a \o b : a \in lineOutputs(reg, file, line),
                   b \in linesOutputs(reg, file, line + 1)}

RECURSIVE filesOutputs(_, _)
filesOutputs(reg, file) ==
    IF file > MaxFiles THEN {<<>>}
    ELSE IF file \notin DOMAIN reg THEN filesOutputs(reg, file + 1)
    ELSE {a \o b : a \in linesOutputs(reg, file, 1),
                   b \in filesOutputs(reg, file + 1)}

\* ------------------------------------------------------------- the run

\* __init__, and the file system main() finds.
Init ==
    /\ disk \in UNION {[S -> FileStates] : S \in SUBSET FileIds}
    /\ filenames = <<>>
    /\ code = <<>>
    /\ issues = <<>>
    /\ pc = "get_filenames"
    /\ cur = 0
    /\ out = <<>>

\* get_filenames: the files of the directory in the order os.listdir gives
\* them, or the one path given.
get_filenames ==
    /\ pc = "get_filenames"
    /\ \/ \E list \in iterOrders(DOMAIN disk) : filenames' = list
       \/ \E f \in FileIds : filenames' = <<f>>
    /\ pc' = "get_code"
    /\ UNCHANGED <<disk, code, issues, cur, out>>

\* The position in self.filenames of the first file open or readlines
\* fails on; 0 when every file is read.
firstUnreadable(names) ==
    IF \A k \in 1..Len(names) : Readable(names[k]) THEN 0
    ELSE CHOOSE k \in 1..Len(names) :
            ~Readable(names[k]) /\ \A j \in 1..(k - 1) : Readable(names[j])

\* get_code: the loop stores the files up to the first one that cannot be
\* read, whose exception nothing catches.
get_code ==
    /\ pc = "get_code"
    /\ LET bad == firstUnreadable(filenames)
           last == IF bad = 0 THEN Len(filenames) ELSE bad - 1
           read == {filenames[k] : k \in 1..last}
       IN  /\ code' = [f \in read |-> disk[f].lines]
           /\ issues' = [f \in read |-> emptySlice(disk[f].lines)]
           /\ pc' = IF bad # 0 THEN "crashed"
                    ELSE IF Len(filenames) = 0 THEN "show_msgs"
                    ELSE "s001"
           /\ cur' = IF bad = 0 /\ Len(filenames) > 0 THEN 1 ELSE 0
    /\ UNCHANGED <<disk, filenames, out>>

\* What one line check of make_analyze's loop body does to the registry,
\* and the step that follows it.
lexCheck(check, next) ==
    /\ LET file == filenames[cur]
       IN  issues' = addAll(issues, file,
                            [i \in DOMAIN issues[file] |-> lexFound(check, code[file], i)])
    /\ pc' = next
    /\ UNCHANGED <<disk, filenames, code, cur, out>>

check_s001 ==
    /\ pc = "s001"
    /\ lexCheck("s001", "s002")

check_s002 ==
    /\ pc = "s002"
    /\ lexCheck("s002", "s003")

check_s003 ==
    /\ pc = "s003"
    /\ lexCheck("s003", "s004")

check_s004 ==
    /\ pc = "s004"
    /\ lexCheck("s004", "s005")

check_s005 ==
    /\ pc = "s005"
    /\ lexCheck("s005", "s006")

check_s006 ==
    /\ pc = "s006"
    /\ lexCheck("s006", "s007")

check_s007 ==
    /\ pc = "s007"
    /\ lexCheck("s007", "check_ast")

\* check_ast: ast.parse raises SyntaxError, which nothing catches, or the
\* five tree checks run on every node; then the loop of make_analyze goes on
\* to the next file, and main() to show_msgs after the last.
check_ast ==
    /\ pc = "check_ast"
    /\ LET file == filenames[cur]
           tree == ast_parse(code[file])
       IN  IF ~tree.ok
           THEN /\ pc' = "crashed"
                /\ UNCHANGED <<issues, cur>>
           ELSE /\ issues' = addAll(issues, file,
                        [i \in DOMAIN issues[file] |-> astFound(tree.nodes, i)])
                /\ IF cur < Len(filenames)
                   THEN cur' = cur + 1 /\ pc' = "s001"
                   ELSE cur' = cur /\ pc' = "show_msgs"
    /\ UNCHANGED <<disk, filenames, code, out>>

\* show_msgs
show_msgs ==
    /\ pc = "show_msgs"
    /\ out' \in filesOutputs(issues, 1)
    /\ pc' = "done"
    /\ UNCHANGED <<disk, filenames, code, issues, cur>>

LexNext ==
    \/ check_s001 \/ check_s002 \/ check_s003 \/ check_s004
    \/ check_s005 \/ check_s006 \/ check_s007

Next == get_filenames \/ get_code \/ LexNext \/ check_ast \/ show_msgs

\* main(): make_analyze() and show_msgs() on the files of the file system.
Spec == Init /\ [][Next]_vars

\* The line checks alone, on one loaded file: any one line of at most
\* MaxLineLen characters (a last line, with no line end), or at most MaxLines
\* lines that are blank or not.
Lines == UNION {[1..n -> Alphabet] : n \in 1..MaxLineLen}
BlankOrNot == {<<"\n">>, <<" ", "\n">>, <<"x", "\n">>}
LexFiles ==
    {<<line>> : line \in Lines} \cup UNION {[1..n -> BlankOrNot] : n \in 1..MaxLines}

LexInit ==
    /\ \E lines \in LexFiles :
          /\ disk = [f \in {1} |-> [readable |-> TRUE, lines |-> lines]]
          /\ code = [f \in {1} |-> lines]
          /\ issues = [f \in {1} |-> emptySlice(lines)]
    /\ filenames = <<1>>
    /\ pc = "s001"
    /\ cur = 1
    /\ out = <<>>

SpecLex == LexInit /\ [][LexNext]_vars

\* ---------------------------------------------------------------- claims

\* The place of a step in a run: the line checks in make_analyze's order,
\* check_ast after them (an uncaught SyntaxError is check_ast's).
order(step) ==
    CASE step = "s001" -> 1 [] step = "s002" -> 2 [] step = "s003" -> 3
      [] step = "s004" -> 4 [] step = "s005" -> 5 [] step = "s006" -> 6
      [] step = "s007" -> 7 [] step = "check_ast" -> 8
      [] step \in {"crashed", "show_msgs", "done"} -> 9
      [] OTHER -> 0

\* The check has run on the file at position k of self.filenames.
Ran(check, k) ==
    /\ k \in 1..Len(filenames)
    /\ k <= cur
    /\ k = cur => order(pc) > order(check)

\* Position j lies strictly inside a span find_boundaries reports.
InsideSpan(b, j) == \E k \in 1..zipLen(b) : b.head[k] < j /\ j < b.tail[k]

\* A ";" of the line that is in no reported span and not after the comment.
StraySemicolon(line, b) ==
    \E j \in 0..(Len(line) - 1) :
        /\ At(line, j) = ";"
        /\ ~InsideSpan(b, j)
        /\ ~(b.comment # None /\ j > b.comment)

\* C1: on a line all of whose strings are closed, check_s003 records S003
\* exactly when some ";" is neither strictly inside a reported string span nor
\* after the reported comment offset.
C1_StraySemicolon ==
    \A k \in 1..Len(filenames) : Ran("s003", k) =>
        LET f == filenames[k] IN
        \A i \in DOMAIN code[f] :
            LET line == code[f][i]
                b == find_boundaries(line)
            IN  Len(b.head) = Len(b.tail) =>
                    (Bare(S003) \in issues[f][i] <=> StraySemicolon(line, b))

\* C1's case: a line of closed strings with a ";" inside a span and a ";"
\* outside, after check_s003 recorded S003 for it.
C1_Witness ==
    /\ Ran("s003", 1)
    /\ LET line == code[filenames[1]][1]
           b == find_boundaries(line)
       IN  /\ Len(b.head) = Len(b.tail)
           /\ \E j \in 0..(Len(line) - 1) : At(line, j) = ";" /\ InsideSpan(b, j)
           /\ Bare(S003) \in issues[filenames[1]][1]

\* C2: on a line with an unterminated string, no comment offset is reported
\* after the unmatched head, and check_s003 records S003 only for a stray ";"
\* before the unmatched head, never for one after it.
C2_UnterminatedString ==
    \A k \in 1..Len(filenames) : Ran("s003", k) =>
        LET f == filenames[k] IN
        \A i \in DOMAIN code[f] :
            LET line == code[f][i]
                b == find_boundaries(line)
            IN  Len(b.head) > Len(b.tail) =>
                    LET open == b.head[Len(b.head)]
                    IN  /\ b.comment = None \/ b.comment < open
                        /\ Bare(S003) \in issues[f][i] =>
                              \E j \in 0..(open - 1) :
                                  At(line, j) = ";" /\ ~InsideSpan(b, j)

\* The number of backslashes immediately before position i.
RECURSIVE backslashesBefore(_, _)
backslashesBefore(line, i) ==
    IF i >= 1 /\ At(line, i - 1) = "\\"
    THEN 1 + backslashesBefore(line, i - 1)
    ELSE 0

\* C3: the tail find_boundaries reports for a head is the first later
\* occurrence of the head's quote character that an even number of
\* backslashes (none included) precedes; the head has no tail when there is
\* no such occurrence.
C3_EscapedQuotes ==
    \A f \in DOMAIN code : \A i \in DOMAIN code[f] :
        LET line == code[f][i]
            b == find_boundaries(line)
        IN  \A k \in 1..Len(b.head) :
                LET h == b.head[k]
                    closing == {t \in (h + 1)..(Len(line) - 1) :
                                   /\ At(line, t) = At(line, h)
                                   /\ backslashesBefore(line, t) % 2 = 0}
                IN  IF closing = {} THEN Len(b.tail) < k
                    ELSE /\ Len(b.tail) >= k
                         /\ b.tail[k] \in closing
                         /\ \A t \in closing : b.tail[k] <= t

\* C4: a reported comment offset c is a "#", every "#" before it lies strictly
\* inside a reported span, c lies in no span and after no unmatched head, and
\* no head or tail is reported after c.
C4_CommentOutsideStrings ==
    \A f \in DOMAIN code : \A i \in DOMAIN code[f] :
        LET line == code[f][i]
            b == find_boundaries(line)
            c == b.comment
        IN  c # None =>
                /\ c \in 0..(Len(line) - 1)
                /\ At(line, c) = "#"
                /\ \A e \in 0..(c - 1) : At(line, e) = "#" => InsideSpan(b, e)
                /\ ~InsideSpan(b, c)
                /\ Len(b.head) = Len(b.tail)
                /\ \A k \in 1..Len(b.head) : b.head[k] < c
                /\ \A k \in 1..Len(b.tail) : b.tail[k] < c

\* C4's case: a line checked by check_s004 whose comment follows a string
\* that holds a "#" and is followed by a quote.
C4_Witness ==
    /\ Ran("s004", 1)
    /\ LET line == code[filenames[1]][1]
           b == find_boundaries(line)
       IN  /\ b.comment # None
           /\ \E e \in 0..(b.comment - 1) : At(line, e) = "#"
           /\ \E q \in (b.comment + 1)..(Len(line) - 1) : At(line, q) \in {"'", "\""}

\* The number of space characters immediately before position i.
RECURSIVE spacesBefore(_, _)
spacesBefore(line, i) ==
    IF i >= 1 /\ At(line, i - 1) = " "
    THEN 1 + spacesBefore(line, i - 1)
    ELSE 0

\* C5: check_s004 records S004 exactly when a comment offset is reported, it
\* is not 0, and the comment marker is not preceded by exactly two spaces.
C5_CommentSpacing ==
    \A k \in 1..Len(filenames) : Ran("s004", k) =>
        LET f == filenames[k] IN
        \A i \in DOMAIN code[f] :
            LET line == code[f][i]
                c == find_boundaries(line).comment
            IN  Bare(S004) \in issues[f][i] <=>
                    (c # None /\ c # 0 /\ spacesBefore(line, c) # 2)

\* Python's order of two characters, the order of their code points, for
\* the characters of an identifier.
Ascii ==
    <<"0", "1", "2", "3", "4", "5", "6", "7", "8", "9",
      "A", "B", "C", "D", "E", "F", "G", "H", "I", "J", "K", "L", "M",
      "N", "O", "P", "Q", "R", "S", "T", "U", "V", "W", "X", "Y", "Z", "_",
      "a", "b", "c", "d", "e", "f", "g", "h", "i", "j", "k", "l", "m",
      "n", "o", "p", "q", "r", "s", "t", "u", "v", "w", "x", "y", "z">>
ord(c) == CHOOSE n \in 1..Len(Ascii) : Ascii[n] = c

\* a < b for two names, as Python orders strings.
nameBefore(a, b) ==
    \E n \in 1..(Len(a) + 1) :
        /\ \A m \in 1..(n - 1) : m <= Len(b) /\ a[m] = b[m]
        /\ \/ n = Len(a) + 1 /\ Len(b) >= n
           \/ n <= Len(a) /\ n <= Len(b) /\ ord(a[n]) < ord(b[n])

\* Record r comes before record s in the order file, line, code, name.
recordBefore(r, s) ==
    \/ r.file < s.file
    \/ r.file = s.file /\ r.line < s.line
    \/ r.file = s.file /\ r.line = s.line /\ r.msg_code < s.msg_code
    \/ /\ r.file = s.file /\ r.line = s.line /\ r.msg_code = s.msg_code
       /\ nameBefore(r.name, s.name)

\* C6: what show_msgs has printed is every issue of the registry once, in the
\* one order by file, line, code and name (so that every run prints the same).
C6_FixedTotalOrder ==
    pc = "done" =>
        /\ \A a, b \in 1..Len(out) : a < b => recordBefore(out[a], out[b])
        /\ \A f \in DOMAIN issues : \A i \in DOMAIN issues[f] :
              \A x \in issues[f][i] :
                  \E a \in 1..Len(out) : out[a] = record(f, i, x)

\* Every finding of the line checks, and of the tree checks when the file
\* parses, for the file at position k is among the printed records.
Reported(k) ==
    LET f == filenames[k]
        lines == disk[f].lines
        tree == ast_parse(lines)
        printed == {out[a] : a \in 1..Len(out)}
    IN  \A i \in 1..Len(lines) :
            /\ \A check \in {"s001", "s002", "s003", "s004", "s005", "s006", "s007"} :
                  \A x \in lexFound(check, lines, i) : record(f, i, x) \in printed
            /\ tree.ok => \A x \in astFound(tree.nodes, i) : record(f, i, x) \in printed

Ended == pc \in {"done", "crashed"}

\* C7: a run whose files are all read and one of which does not parse ends
\* with show_msgs done, the findings of every file's line checks printed (and
\* those of the tree checks for the files that parse).
C7_ParseFailureRecovered ==
    ( /\ Ended
      /\ \A k \in 1..Len(filenames) : Readable(filenames[k])
      /\ \E k \in 1..Len(filenames) : ~ast_parse(disk[filenames[k]].lines).ok )
    => /\ pc = "done"
       /\ \A k \in 1..Len(filenames) : Reported(k)

\* C8: a run one of whose files cannot be read ends with every other file
\* loaded, its registry slice made, and its findings printed.
C8_ReadFailureSkipsOneFile ==
    ( /\ Ended
      /\ \E k \in 1..Len(filenames) : ~Readable(filenames[k]) )
    => \A k \in 1..Len(filenames) : Readable(filenames[k]) =>
          /\ filenames[k] \in DOMAIN code
          /\ filenames[k] \in DOMAIN issues
          /\ Reported(k)

\* The issues of the codes a check records.
ownCodes(check) ==
    CASE check = "s001" -> {S001} [] check = "s002" -> {S002}
      [] check = "s003" -> {S003} [] check = "s004" -> {S004}
      [] check = "s005" -> {S005} [] check = "s006" -> {S006}
      [] check = "s007" -> {S007}
      [] check = "check_ast" -> {S008, S009, S010, S011, S012}

\* C9: check_s006 records S006 on line i exactly when line i is not blank and
\* the three lines before it are blank (a run of more than two blank lines
\* ends at it); blank lines, a final run of them included, get none.
C9_ExcessiveBlankLines ==
    \A k \in 1..Len(filenames) : Ran("s006", k) =>
        LET f == filenames[k]
            blank(i) == \A j \in 1..Len(code[f][i]) : IsSpace(code[f][i][j])
        IN  \A i \in DOMAIN code[f] :
                Bare(S006) \in issues[f][i] <=>
                    /\ ~blank(i)
                    /\ i >= 4
                    /\ blank(i - 1) /\ blank(i - 2) /\ blank(i - 3)

\* C9's case: three blank lines, a line that gets S006, and a line after it
\* that gets none.
C9_Witness ==
    /\ Ran("s006", 1)
    /\ LET f == filenames[1]
       IN  /\ Len(code[f]) = 5
           /\ Bare(S006) \in issues[f][4]
           /\ Bare(S006) \notin issues[f][5]
           /\ code[f][5] = <<"x", "\n">>

\* C10: when a run whose files were all read has ended, what each check has
\* recorded for each file is what that check finds in the file's lines (or
\* tree) alone, whatever the other checks of the sequence did.
C10_ChecksIndependent ==
    (Ended /\ firstUnreadable(filenames) = 0) =>
        \A k \in 1..Len(filenames) :
            LET f == filenames[k]
                tree == ast_parse(code[f])
                recorded(check, i) == {x \in issues[f][i] : x[1] \in ownCodes(check)}
            IN  \A i \in DOMAIN code[f] :
                    /\ \A check \in {"s001", "s002", "s003", "s004", "s005", "s006", "s007"} :
                          recorded(check, i) = lexFound(check, code[f], i)
                    /\ tree.ok => recorded("check_ast", i) = astFound(tree.nodes, i)

====
